---- MODULE Spec2Model ----
(***************************************************************************)
(* Model of objconv's ValueParser (parse.go): the reference implementation *)
(* of the Parser protocol that walks an in-memory value with the reflect   *)
(* package and replays it as a stream of parser calls.                     *)
(*                                                                         *)
(* A reflect.Value is a record.  Every value carries its reflect.Kind      *)
(* (kind) and the name of its Go type (ty); the payload field depends on   *)
(* the kind: b (bool), i (signed), u (unsigned), f (float), s (string),    *)
(* t (time.Time instant), elems (slice, array), ents (map), flds (struct), *)
(* isnil / elem (pointer, interface).                                      *)
(***************************************************************************)
EXTENDS Integers, Sequences, FiniteSets, TLC

VARIABLES stack, ctx, pc, dec, typ, typeCalls, op, ret, events, begins, ends, root

vars == <<stack, ctx, pc, dec, typ, typeCalls, op, ret, events, begins, ends, root>>

(***************************************************************************)
(* Bounds of the model.                                                    *)
(***************************************************************************)
\* longest slice / array, and most entries of a map, in a generated value
MaxLen == 2
\* longest chain of pointer layers wrapped around a generated value
MaxWrap == 2
\* most ParseType calls a decoder repeats on one value
MaxTypeCalls == 2

(***************************************************************************)
(* Go values as seen through reflect.                                      *)
(***************************************************************************)
Invalid == [kind |-> "Invalid", ty |-> "<invalid>"]
BoolV(x) == [kind |-> "Bool", ty |-> "bool", b |-> x]
IntV(x) == [kind |-> "Int", ty |-> "int", i |-> x]
UintV(x) == [kind |-> "Uint", ty |-> "uint", u |-> x]
ByteV(x) == [kind |-> "Uint8", ty |-> "uint8", u |-> x]
FloatV(x) == [kind |-> "Float64", ty |-> "float64", f |-> x]
StrV(x) == [kind |-> "String", ty |-> "string", s |-> x]
DurationV(x) == [kind |-> "Int64", ty |-> "time.Duration", i |-> x]
TimeV(x) == [kind |-> "Struct", ty |-> "time.Time", t |-> x]
FuncV == [kind |-> "Func", ty |-> "func()"]
ChanV == [kind |-> "Chan", ty |-> "chan int"]
PtrTo(x) == [kind |-> "Ptr", ty |-> "*" \o x.ty, isnil |-> FALSE, elem |-> x]
NilPtr(t) == [kind |-> "Ptr", ty |-> "*" \o t, isnil |-> TRUE]
IfaceOf(x) == [kind |-> "Interface", ty |-> "interface {}", isnil |-> FALSE, elem |-> x]
NilIface == [kind |-> "Interface", ty |-> "interface {}", isnil |-> TRUE]
SliceV(t, ek, es) == [kind |-> "Slice", ty |-> "[]" \o t, ek |-> ek, elems |-> es]
ArrayV(t, ek, es) == [kind |-> "Array", ty |-> "[2]" \o t, ek |-> ek, elems |-> es]
MapV(t, es) == [kind |-> "Map", ty |-> "map[string]" \o t, ents |-> es]
StructV(t, fs) == [kind |-> "Struct", ty |-> t, flds |-> fs]
Fld(n, oe, x) == [name |-> n, omitempty |-> oe, val |-> x]

\* errors.New(msg): a non-nil pointer to a record
ErrorPtr(msg) == PtrTo(StructV("errors.errorString", <<Fld("s", FALSE, StrV(msg))>>))
\* error-carrying values of other representations
ErrorStr(msg) == [kind |-> "String", ty |-> "strError", s |-> msg]
ErrorRec(n) == [kind |-> "Struct", ty |-> "recError", flds |-> <<Fld("Code", FALSE, IntV(n))>>]
ErrorSeq(es) == [kind |-> "Slice", ty |-> "seqError", ek |-> "String", elems |-> es]
ErrorNilPtr == [kind |-> "Ptr", ty |-> "*ptrError", isnil |-> TRUE]

\* the types whose method set holds Error() string
ErrorTypes == {"*errors.errorString", "strError", "recError", "*recError", "seqError",
               "*seqError", "*strError", "*ptrError"}

IsValid(v) == v.kind # "Invalid"

\* reflect.Value.IsNil, for the kinds the parser asks it of
IsNil(v) == v.kind \in {"Ptr", "Interface"} /\ v.isnil

\* reflect.Value.Interface: the value repacked as an interface{}; an
\* Interface-kind value yields its dynamic value, nil when it is empty
Interface(v) == IF v.kind = "Interface" THEN (IF v.isnil THEN Invalid ELSE v.elem) ELSE v

\* the type-switch cases of ParseType and value()
IsErrorCase(x) == x.ty \in ErrorTypes
IsTimeCase(x) == x.ty = "time.Time"
IsDurationCase(x) == x.ty = "time.Duration"

Top(s) == s[Len(s)]

RECURSIVE dereference(_)
dereference(v) ==
  IF v.kind \in {"Interface", "Ptr"} /\ ~IsNil(v) THEN dereference(v.elem) ELSE v

\* value() removing one layer only, with no jump back to the switch
valueOneLayer(s) ==
  LET v == Top(s) IN
  IF ~IsValid(v) THEN v
  ELSE IF IsErrorCase(Interface(v)) THEN v
  ELSE IF v.kind \in {"Interface", "Ptr"} /\ ~IsNil(v) THEN v.elem ELSE v

\* value() without the error case ahead of the unwrap loop
valueNoErrorCase(s) ==
  LET v == Top(s) IN IF ~IsValid(v) THEN v ELSE dereference(v)

\* ValueParser.value
value(s) ==
  LET v == Top(s) IN
  IF ~IsValid(v) THEN v
  ELSE IF IsErrorCase(Interface(v)) THEN v
  ELSE dereference(v)

NoError == ""

\* the last return of ParseType handing back no error
UnsupportedTypeDropped(v) == NoError

\* the error of the last return of ParseType
UnsupportedType(v) == "objconv: unsupported type found in value parser: " \o v.ty

SignedKinds == {"Int", "Int8", "Int16", "Int32", "Int64"}
UnsignedKinds == {"Uint", "Uint8", "Uint16", "Uint32", "Uint64", "Uintptr"}
FloatKinds == {"Float32", "Float64"}

\* the switch on v.Kind() of ParseType
KindType(v) ==
  CASE v.kind = "Bool" -> [type |-> "Bool", err |-> NoError]
    [] v.kind \in SignedKinds -> [type |-> "Int", err |-> NoError]
    [] v.kind \in UnsignedKinds -> [type |-> "Uint", err |-> NoError]
    [] v.kind \in FloatKinds -> [type |-> "Float", err |-> NoError]
    [] v.kind = "String" -> [type |-> "String", err |-> NoError]
    [] v.kind = "Slice" ->
         IF v.ek = "Uint8" THEN [type |-> "Bytes", err |-> NoError]
         ELSE [type |-> "Array", err |-> NoError]
    [] v.kind = "Array" -> [type |-> "Array", err |-> NoError]
    [] v.kind = "Map" -> [type |-> "Map", err |-> NoError]
    [] v.kind = "Struct" -> [type |-> "Map", err |-> NoError]
    [] v.kind = "Interface" /\ IsNil(v) -> [type |-> "Nil", err |-> NoError]
    [] OTHER -> [type |-> "Nil", err |-> UnsupportedType(v)]

\* the switch on v.Interface().(type) of ParseType, then the kind switch
TypeOf(v) ==
  IF ~IsValid(v) THEN [type |-> "Nil", err |-> NoError]
  ELSE IF IsTimeCase(Interface(v)) THEN [type |-> "Time", err |-> NoError]
  ELSE IF IsDurationCase(Interface(v)) THEN [type |-> "Duration", err |-> NoError]
  ELSE IF IsErrorCase(Interface(v)) THEN [type |-> "Error", err |-> NoError]
  ELSE KindType(v)

\* ValueParser.ParseType: the (Type, error) it returns
ParseType(s) == TypeOf(value(s))

(***************************************************************************)
(* reflect operations on composites and the field-metadata collaborator.   *)
(***************************************************************************)
\* reflect.Value.Len of a slice, array or map
VLen(v) == IF v.kind = "Map" THEN Len(v.ents) ELSE Len(v.elems)

\* reflect.Value.Index(i), i counted from 0
Index(v, i) == v.elems[i + 1]

Injections(n) == {p \in [1..n -> 1..n] : \A a, b \in 1..n : p[a] = p[b] => a = b}

\* reflect.Value.MapKeys: the keys in an unspecified order, one order per call
MapKeys(v) == {[j \in 1..Len(v.ents) |-> v.ents[p[j]].k] : p \in Injections(Len(v.ents))}

\* reflect.Value.MapIndex(key)
MapIndex(v, key) ==
  LET j == CHOOSE j \in 1..Len(v.ents) : v.ents[j].k = key IN v.ents[j].v

\* LookupStruct(v.Type()).Fields: name, index path and omitempty tag per field
LookupStruct(v) ==
  [j \in 1..Len(v.flds) |->
     [Name |-> v.flds[j].name, Index |-> j - 1, Omitempty |-> v.flds[j].omitempty]]

\* reflect.Value.FieldByIndex(index), index counted from 0
FieldByIndex(v, i) == v.flds[i + 1].val

isEmptyValue(v) ==
  CASE v.kind = "Bool" -> ~v.b
    [] v.kind \in SignedKinds -> v.i = 0
    [] v.kind \in UnsignedKinds -> v.u = 0
    [] v.kind \in FloatKinds -> v.f = 0
    [] v.kind = "String" -> v.s = ""
    [] v.kind \in {"Slice", "Array", "Map"} -> VLen(v) = 0
    [] v.kind \in {"Ptr", "Interface"} -> v.isnil
    [] OTHER -> FALSE

\* the omission predicate of a field on an instance
omit(f, fv) == f.Omitempty /\ isEmptyValue(fv)

(***************************************************************************)
(* The parser: p = [stack, ctx].  A nil Go slice is [isnil |-> TRUE].      *)
(***************************************************************************)
NilSlice == [isnil |-> TRUE, elems |-> <<>>]
SliceOf(es) == [isnil |-> FALSE, elems |-> es]

\* append(c.fields, f) of the record branch
AppendField(fs, f) == SliceOf(Append(fs.elems, f))

valueParserContext(n, v, k, f) ==
  [index |-> 0, length |-> n, value |-> v, keys |-> k, fields |-> f]

\* NewValueParser(v): stack holds reflect.ValueOf(v), ctx is empty
NewValueParser(v) == [stack |-> <<v>>, ctx |-> <<>>]

push(p, v) == [p EXCEPT !.stack = Append(p.stack, v)]
pop(p) == [p EXCEPT !.stack = SubSeq(p.stack, 1, Len(p.stack) - 1)]
pushContext(p, c) == [p EXCEPT !.ctx = Append(p.ctx, c)]
popContext(p) == [p EXCEPT !.ctx = SubSeq(p.ctx, 1, Len(p.ctx) - 1)]
context(p) == p.ctx[Len(p.ctx)]
\* ctx.index++ through the pointer context() returns
incrIndex(p) == [p EXCEPT !.ctx[Len(p.ctx)].index = @ + 1]

\* ParseArrayBegin: the parser afterwards and the length returned
ParseArrayBegin(p) ==
  LET v == value(p.stack)
      n == VLen(v)
      p1 == pushContext(p, valueParserContext(n, v, NilSlice, NilSlice))
  IN [p |-> IF n # 0 THEN push(p1, Index(v, 0)) ELSE p1, n |-> n, err |-> NoError]

\* ParseArrayEnd leaving its context on the context stack
ParseArrayEndKeepContext(p) ==
  LET c == context(p)
  IN IF c.length # 0 THEN pop(p) ELSE p

ParseArrayEnd(p) ==
  LET c == context(p)
      p1 == IF c.length # 0 THEN pop(p) ELSE p
  IN popContext(p1)

ParseArrayNext(p) ==
  LET p1 == incrIndex(p)
      c == context(p1)
  IN push(pop(p1), Index(c.value, c.index))

\* objconv.End, the error a Next call returns when no element is left and
\* the length was not known at Begin
End == "objconv: end"

\* ParseArrayNext signalling the end as it moves onto the last element
ParseArrayNextErrSentinel(p) ==
  IF context(p).index + 2 >= context(p).length THEN End ELSE NoError

\* the error ParseArrayNext returns: its named result, never assigned
ParseArrayNextErr(p) == NoError

\* the loop of the record branch: the fields that are not omitted, in order
RECURSIVE SurvivingFields(_, _, _)
SurvivingFields(fs, v, acc) ==
  IF fs = <<>> THEN acc
  ELSE LET f == Head(fs) IN
       SurvivingFields(Tail(fs), v,
                       IF ~omit(f, FieldByIndex(v, f.Index)) THEN AppendField(acc, f) ELSE acc)

\* ParseMapBegin on a native map whose MapKeys call returned k
ParseMapBeginMap(p, v, k) ==
  LET n == VLen(v)
      p1 == pushContext(p, valueParserContext(n, v, SliceOf(k), NilSlice))
  IN [p |-> IF n # 0 THEN push(p1, k[1]) ELSE p1, n |-> n, err |-> NoError]

\* ParseMapBegin on a record: the context is built with value and fields only
ParseMapBeginStruct(p, v) ==
  LET fields == SurvivingFields(LookupStruct(v), v, NilSlice)
      n == Len(fields.elems)
      c == valueParserContext(0, v, NilSlice, fields)
      p1 == pushContext(p, c)
  IN [p |-> IF n # 0 THEN push(p1, StrV(c.fields.elems[1].Name)) ELSE p1, n |-> n,
      err |-> NoError]

\* ParseMapEnd popping a child whatever the length
ParseMapEndAlwaysPop(p) == popContext(pop(p))

ParseMapEnd(p) ==
  LET c == context(p)
      p1 == IF c.length # 0 THEN pop(p) ELSE p
  IN popContext(p1)

\* ParseMapValue reading the field at the context's index, not at the
\* surviving field's own index
ParseMapValueByPosition(p) ==
  LET c == context(p)
      p1 == pop(p)
  IN IF ~c.keys.isnil
     THEN push(p1, MapIndex(c.value, c.keys.elems[c.index + 1]))
     ELSE push(p1, FieldByIndex(c.value, c.index))

\* ParseMapValue pushing the value above the key
ParseMapValueNoPop(p) ==
  LET c == context(p)
  IN IF ~c.keys.isnil
     THEN push(p, MapIndex(c.value, c.keys.elems[c.index + 1]))
     ELSE push(p, FieldByIndex(c.value, c.fields.elems[c.index + 1].Index))

ParseMapValue(p) ==
  LET c == context(p)
      p1 == pop(p)
  IN IF ~c.keys.isnil
     THEN push(p1, MapIndex(c.value, c.keys.elems[c.index + 1]))
     ELSE push(p1, FieldByIndex(c.value, c.fields.elems[c.index + 1].Index))

\* ParseMapNext re-deriving the key without advancing the index
ParseMapNextNoAdvance(p) ==
  LET p1 == pop(p)
      c == context(p1)
  IN IF ~c.keys.isnil
     THEN push(p1, c.keys.elems[c.index + 1])
     ELSE push(p1, StrV(c.fields.elems[c.index + 1].Name))

ParseMapNext(p) ==
  LET p1 == pop(incrIndex(p))
      c == context(p1)
  IN IF ~c.keys.isnil
     THEN push(p1, c.keys.elems[c.index + 1])
     ELSE push(p1, StrV(c.fields.elems[c.index + 1].Name))

\* the error ParseMapNext returns: its named result, never assigned
ParseMapNextErr(p) == NoError

\* the scalar getters: what each returns for the current value
ParseBool(p) == [b |-> value(p.stack).b]
ParseInt(p) == [i |-> value(p.stack).i]
ParseUint(p) == [u |-> value(p.stack).u]
ParseFloat(p) == [f |-> value(p.stack).f]
ParseString(p) == [s |-> value(p.stack).s]
ParseBytes(p) == LET v == value(p.stack) IN [bytes |-> [j \in 1..Len(v.elems) |-> v.elems[j].u]]
ParseTime(p) == [t |-> Interface(value(p.stack)).t]
ParseDuration(p) == [i |-> Interface(value(p.stack)).i]
ParseError(p) == [e |-> Interface(value(p.stack))]
ParseNil(p) == [nil |-> TRUE]

(***************************************************************************)
(* The values a parser is constructed around.                              *)
(***************************************************************************)
SeqsUpTo(S, n) == UNION {[1..m -> S] : m \in 0..n}

RECURSIVE Wrapped(_, _)
\* v behind 0..n pointer layers
Wrapped(v, n) == IF n = 0 THEN {v} ELSE {v} \cup Wrapped(PtrTo(v), n - 1)

Scalars ==
  {BoolV(FALSE), BoolV(TRUE), IntV(0), IntV(1), UintV(2), FloatV(3), StrV(""), StrV("x"),
   DurationV(5), TimeV(7)}

Errors == {ErrorPtr("boom"), ErrorStr("boom"), ErrorRec(1), ErrorSeq(<<StrV("a")>>), ErrorNilPtr}

Unsupported == {FuncV, ChanV}

\* what an interface{} element, map value or field may hold
Dynamic == {IntV(1), StrV("x"), DurationV(5), ErrorPtr("boom"), FuncV, NilPtr("int"),
            PtrTo(IntV(1))}

Ifaces == {NilIface} \cup {IfaceOf(x) : x \in Dynamic}

Records ==
  {StructV("T", <<Fld("A", TRUE, IntV(a)), Fld("B", TRUE, StrV(b)), Fld("C", FALSE, c)>>) :
     a \in {0, 1}, b \in {"", "x"}, c \in {NilIface, IfaceOf(IntV(1))}}
  \cup {StructV("E", <<>>), StructV("O", <<Fld("A", TRUE, IntV(0))>>)}

Sequences1 ==
  {SliceV("int", "Int", es) : es \in SeqsUpTo({IntV(1), IntV(2)}, MaxLen)}
  \cup {SliceV("uint8", "Uint8", es) : es \in SeqsUpTo({ByteV(1), ByteV(2)}, MaxLen)}
  \cup {ArrayV("uint8", "Uint8", <<ByteV(1), ByteV(2)>>), ArrayV("int", "Int", <<IntV(1), IntV(2)>>)}
  \cup {SliceV("interface {}", "Interface", es) : es \in SeqsUpTo(Ifaces, MaxLen)}
  \cup {SliceV("*int", "Ptr", <<PtrTo(IntV(1)), NilPtr("int")>>)}

\* native maps with distinct string keys, in their order of construction
MapsOver(t, S) ==
  {MapV(t, es) : es \in {<<>>} \cup {<<[k |-> StrV("a"), v |-> x]>> : x \in S}
                        \cup (IF MaxLen >= 2
                              THEN {<<[k |-> StrV("a"), v |-> x], [k |-> StrV("b"), v |-> y]>> :
                                      x \in S, y \in S}
                              ELSE {})}

Maps1 == MapsOver("int", {IntV(1), IntV(2)}) \cup MapsOver("interface {}", {NilIface, IfaceOf(StrV("x"))})

\* the composites nested inside other composites
Inner ==
  {SliceV("int", "Int", <<>>), SliceV("int", "Int", <<IntV(1), IntV(2)>>),
   StructV("O", <<Fld("A", TRUE, IntV(0))>>),
   StructV("T", <<Fld("A", TRUE, IntV(0)), Fld("B", TRUE, StrV("x")), Fld("C", FALSE, NilIface)>>),
   MapV("int", <<[k |-> StrV("a"), v |-> IntV(1)]>>)}

Nested ==
  {SliceV("interface {}", "Interface", es) : es \in SeqsUpTo({IfaceOf(x) : x \in Inner}, MaxLen)}
  \cup MapsOver("interface {}", {IfaceOf(x) : x \in Inner})
  \cup {StructV("N", <<Fld("P", FALSE, IfaceOf(x)), Fld("Q", TRUE, IfaceOf(y))>>) : x, y \in Inner}
  \cup {SliceV("interface {}", "Interface",
               <<IfaceOf(SliceV("interface {}", "Interface", <<IfaceOf(x)>>)), IfaceOf(y)>>) :
          x, y \in Inner}

Roots ==
  {Invalid} \cup Errors \cup Unsupported
  \cup UNION {Wrapped(v, MaxWrap) : v \in {IntV(1), DurationV(5), TimeV(7), FuncV,
                                           NilPtr("int"), ErrorRec(1),
                                           SliceV("int", "Int", <<IntV(1), IntV(2)>>)}}
  \cup Scalars \cup Records \cup Sequences1 \cup Maps1 \cup Nested

(***************************************************************************)
(* The decoder driving the parser: pc is its position on the current       *)
(* value, dec holds one frame per composite it has open.                   *)
(***************************************************************************)
P == [stack |-> stack, ctx |-> ctx]

\* a frame remembers the stacks as they were before Begin and the children
\* Begin and Next have exposed
Frame(k, n, ph) ==
  [kind |-> k, n |-> n, i |-> 0, phase |-> ph, saved |-> stack, ctx |-> ctx, seen |-> <<>>]

Result(f, e) == [n |-> f.n, saved |-> f.saved, ctx |-> f.ctx, seen |-> f.seen, err |-> e]

After(d) == IF d = <<>> THEN "done" ELSE "next"

Typed(t) == pc = "typed" /\ typ.err = NoError /\ typ.type = t

Init ==
  /\ root \in Roots
  /\ stack = NewValueParser(root).stack
  /\ ctx = NewValueParser(root).ctx
  /\ pc = "type"
  /\ dec = <<>>
  /\ typ = [type |-> "Nil", err |-> NoError]
  /\ typeCalls = 0
  /\ op = "NewValueParser"
  /\ ret = [n |-> 0, saved |-> <<>>, ctx |-> <<>>, seen |-> <<>>, err |-> NoError]
  /\ events = <<>>
  /\ begins = 0
  /\ ends = 0

\* ParseType storing the unwrapped value back on the stack
ParseTypeCallInPlace ==
  /\ pc = "type" \/ (pc = "typed" /\ typeCalls < MaxTypeCalls)
  /\ typ' = ParseType(stack)
  /\ stack' = [stack EXCEPT ![Len(stack)] = value(stack)]
  /\ typeCalls' = typeCalls + 1
  /\ pc' = "typed"
  /\ op' = "ParseType"
  /\ UNCHANGED <<ctx, dec, ret, events, begins, ends, root>>

\* ParseType, asked once or repeatedly before the value is extracted
ParseTypeCall ==
  /\ pc = "type" \/ (pc = "typed" /\ typeCalls < MaxTypeCalls)
  /\ typ' = ParseType(stack)
  /\ typeCalls' = typeCalls + 1
  /\ pc' = "typed"
  /\ op' = "ParseType"
  /\ UNCHANGED <<stack, ctx, dec, ret, events, begins, ends, root>>

\* a scalar getter: the decoder calls the one matching the Type it was given
Getter(t, name, result) ==
  /\ Typed(t)
  /\ events' = Append(events, [type |-> t, val |-> result])
  /\ op' = name
  /\ pc' = After(dec)
  /\ typeCalls' = 0
  /\ UNCHANGED <<stack, ctx, dec, typ, ret, begins, ends, root>>

\* ParseInt consuming the value it returns
ParseIntCallConsume ==
  /\ Typed("Int")
  /\ events' = Append(events, [type |-> "Int", val |-> ParseInt(P)])
  /\ stack' = pop(P).stack
  /\ op' = "ParseInt"
  /\ pc' = After(dec)
  /\ typeCalls' = 0
  /\ UNCHANGED <<ctx, dec, typ, ret, begins, ends, root>>

ParseNilCall == Getter("Nil", "ParseNil", ParseNil(P))
ParseBoolCall == Getter("Bool", "ParseBool", ParseBool(P))
ParseIntCall == Getter("Int", "ParseInt", ParseInt(P))
ParseUintCall == Getter("Uint", "ParseUint", ParseUint(P))
ParseFloatCall == Getter("Float", "ParseFloat", ParseFloat(P))
ParseStringCall == Getter("String", "ParseString", ParseString(P))
ParseBytesCall == Getter("Bytes", "ParseBytes", ParseBytes(P))
ParseTimeCall == Getter("Time", "ParseTime", ParseTime(P))
ParseDurationCall == Getter("Duration", "ParseDuration", ParseDuration(P))
ParseErrorCall == Getter("Error", "ParseError", ParseError(P))

\* a Begin call that returned r = [p, n]
Begun(r, f, name, t) ==
  /\ stack' = r.p.stack
  /\ ctx' = r.p.ctx
  /\ dec' = Append(dec, [f EXCEPT !.seen = IF r.n # 0 THEN <<Top(r.p.stack)>> ELSE <<>>])
  /\ pc' = IF r.n = 0 THEN "next" ELSE "type"
  /\ ret' = Result(Top(dec'), r.err)
  /\ events' = Append(events, [type |-> t, val |-> [n |-> r.n]])
  /\ op' = name
  /\ begins' = begins + 1
  /\ typeCalls' = 0
  /\ UNCHANGED <<typ, ends, root>>

ParseArrayBeginCall ==
  /\ Typed("Array")
  /\ LET r == ParseArrayBegin(P) IN Begun(r, Frame("array", r.n, "elem"), "ParseArrayBegin", "Array")

ParseMapBeginCall ==
  /\ Typed("Map")
  /\ LET v == value(stack) IN
     IF v.kind = "Map"
     THEN \E k \in MapKeys(v) :
            LET r == ParseMapBeginMap(P, v, k) IN
            Begun(r, Frame("map", r.n, IF r.n = 0 THEN "value" ELSE "key"), "ParseMapBegin", "Map")
     ELSE LET r == ParseMapBeginStruct(P, v) IN
          Begun(r, Frame("map", r.n, IF r.n = 0 THEN "value" ELSE "key"), "ParseMapBegin", "Map")

\* a Next or MapValue call: the frame moves on, the next value awaits ParseType
Moved(p, f, name, e) ==
  /\ stack' = p.stack
  /\ ctx' = p.ctx
  /\ dec' = [dec EXCEPT ![Len(dec)] = f]
  /\ pc' = "type"
  /\ ret' = Result(f, e)
  /\ op' = name
  /\ UNCHANGED <<typ, typeCalls, events, begins, ends, root>>

\* an End call: the frame is closed and the composite is a completed value
Ended(p, name) ==
  /\ stack' = p.stack
  /\ ctx' = p.ctx
  /\ dec' = SubSeq(dec, 1, Len(dec) - 1)
  /\ pc' = After(dec')
  /\ ret' = Result(Top(dec), NoError)
  /\ op' = name
  /\ ends' = ends + 1
  /\ UNCHANGED <<typ, typeCalls, events, begins, root>>

Open(k) == pc = "next" /\ dec # <<>> /\ Top(dec).kind = k

ParseArrayNextCall ==
  /\ Open("array")
  /\ Top(dec).i < Top(dec).n - 1
  /\ Moved(ParseArrayNext(P),
           [Top(dec) EXCEPT !.i = @ + 1, !.seen = Append(@, Top(ParseArrayNext(P).stack))],
           "ParseArrayNext", ParseArrayNextErr(P))

ParseArrayEndCall ==
  /\ Open("array")
  /\ ~(Top(dec).i < Top(dec).n - 1)
  /\ Ended(ParseArrayEnd(P), "ParseArrayEnd")

ParseMapValueCall ==
  /\ Open("map")
  /\ Top(dec).phase = "key"
  /\ Moved(ParseMapValue(P), [Top(dec) EXCEPT !.phase = "value"], "ParseMapValue", NoError)

ParseMapNextCall ==
  /\ Open("map")
  /\ Top(dec).phase = "value"
  /\ Top(dec).i < Top(dec).n - 1
  /\ Moved(ParseMapNext(P),
           [Top(dec) EXCEPT !.i = @ + 1, !.phase = "key",
                            !.seen = Append(@, Top(ParseMapNext(P).stack))],
           "ParseMapNext", ParseMapNextErr(P))

ParseMapEndCall ==
  /\ Open("map")
  /\ Top(dec).phase = "value"
  /\ ~(Top(dec).i < Top(dec).n - 1)
  /\ Ended(ParseMapEnd(P), "ParseMapEnd")

Next ==
  \/ ParseTypeCall
  \/ ParseNilCall
  \/ ParseBoolCall
  \/ ParseIntCall
  \/ ParseUintCall
  \/ ParseFloatCall
  \/ ParseStringCall
  \/ ParseBytesCall
  \/ ParseTimeCall
  \/ ParseDurationCall
  \/ ParseErrorCall
  \/ ParseArrayBeginCall
  \/ ParseArrayNextCall
  \/ ParseArrayEndCall
  \/ ParseMapBeginCall
  \/ ParseMapValueCall
  \/ ParseMapNextCall
  \/ ParseMapEndCall

Spec == Init /\ [][Next]_vars

(***************************************************************************)
(* Reference definitions the properties are stated with.  They are written *)
(* from the protocol's description of a value, not from the parser.        *)
(***************************************************************************)
\* the value under test when Begin was called on the frame now on top
Backing == dereference(Top(ret.saved))

ErrorCarrying(x) == IsValid(x) /\ Interface(x).ty \in ErrorTypes

\* positions (from 1) of the fields of record v whose omission predicate is false
Surviving(v) ==
  SelectSeq([j \in 1..Len(v.flds) |-> j],
            LAMBDA j : ~(v.flds[j].omitempty /\ isEmptyValue(v.flds[j].val)))

ByteSequence(v) == v.kind \in {"Slice", "Array"} /\ v.ek = "Uint8"

Event(t, x) == [type |-> t, val |-> x]

RECURSIVE Flat(_), FlatAll(_)
\* the depth-first, in-order flattenings of x: one per enumeration order of
\* the native maps in it, none when x holds a value outside the vocabulary
Flat(x) ==
  IF ~IsValid(x) THEN {<<Event("Nil", [nil |-> TRUE])>>}
  ELSE IF ErrorCarrying(x) THEN {<<Event("Error", [e |-> Interface(x)])>>}
  ELSE LET v == dereference(x) IN
    CASE v.kind \in {"Ptr", "Interface"} -> {<<Event("Nil", [nil |-> TRUE])>>}
      [] v.ty = "time.Time" -> {<<Event("Time", [t |-> v.t])>>}
      [] v.ty = "time.Duration" -> {<<Event("Duration", [i |-> v.i])>>}
      [] ErrorCarrying(v) -> {<<Event("Error", [e |-> v])>>}
      [] v.kind = "Bool" -> {<<Event("Bool", [b |-> v.b])>>}
      [] v.kind \in SignedKinds -> {<<Event("Int", [i |-> v.i])>>}
      [] v.kind \in UnsignedKinds -> {<<Event("Uint", [u |-> v.u])>>}
      [] v.kind \in FloatKinds -> {<<Event("Float", [f |-> v.f])>>}
      [] v.kind = "String" -> {<<Event("String", [s |-> v.s])>>}
      [] ByteSequence(v) ->
           {<<Event("Bytes", [bytes |-> [j \in 1..Len(v.elems) |-> v.elems[j].u]])>>}
      [] v.kind \in {"Slice", "Array"} ->
           {<<Event("Array", [n |-> Len(v.elems)])>> \o t : t \in FlatAll(v.elems)}
      [] v.kind = "Map" ->
           {<<Event("Map", [n |-> Len(v.ents)])>> \o t :
              t \in UNION {FlatAll([j \in 1..2 * Len(v.ents) |->
                                      IF j % 2 = 1 THEN v.ents[p[(j + 1) \div 2]].k
                                      ELSE v.ents[p[j \div 2]].v]) :
                             p \in Injections(Len(v.ents))}}
      [] v.kind = "Struct" ->
           LET sv == Surviving(v) IN
           {<<Event("Map", [n |-> Len(sv)])>> \o t :
              t \in FlatAll([j \in 1..2 * Len(sv) |->
                               IF j % 2 = 1 THEN StrV(v.flds[sv[(j + 1) \div 2]].name)
                               ELSE v.flds[sv[j \div 2]].val])}
      [] OTHER -> {}

\* the flattenings of the values of xs, one after the other
FlatAll(xs) ==
  IF xs = <<>> THEN {<<>>}
  ELSE {a \o b : a \in Flat(Head(xs)), b \in FlatAll(Tail(xs))}

(***************************************************************************)
(* Properties.                                                             *)
(***************************************************************************)
\* C1: when the traversal of the root completes, the number of Begin calls
\* equals the number of End calls, and the value stack and the context
\* stack are both empty.
C1_StackBalance ==
  pc = "done" => begins = ends /\ stack = <<>> /\ ctx = <<>>

\* C2: for a root value made of values of the vocabulary, the traversal
\* raises no error and, once complete, the events are a depth-first,
\* in-order flattening of the root.
C2_EventReplay ==
  Flat(root) # {} => typ.err = NoError /\ (pc = "done" => events \in Flat(root))

\* C3: after ParseMapEnd of a map traversal that enumerated at least one
\* entry, the value stack is what it was before the matching ParseMapBegin.
C3_MapEndRestores ==
  op = "ParseMapEnd" /\ ret.n > 0 => stack = ret.saved

\* C4: for an array of length n > 0, Begin returns n and leaves element 0 on
\* top of the stack; the k-th Next leaves element k on top with the previous
\* element popped; End pops the last child and then the context.
C4_ArrayReplay ==
  /\ op = "ParseArrayBegin" /\ VLen(Backing) > 0 =>
       /\ ret.n = VLen(Backing)
       /\ stack = Append(ret.saved, Backing.elems[1])
  /\ op = "ParseArrayNext" => stack = Append(ret.saved, Backing.elems[Top(dec).i + 1])
  /\ op = "ParseArrayEnd" /\ ret.n > 0 => stack = ret.saved /\ Len(ctx) = Len(dec)

\* C5: on a record, ParseMapBegin returns the number of fields whose
\* omission predicate is false; Begin and the ParseMapNext calls expose the
\* names of those fields in metadata order, and ParseMapValue exposes the
\* value of the field whose name was exposed last.
C5_FieldOmission ==
  (op \in {"ParseMapBegin", "ParseMapNext", "ParseMapValue"} /\ Backing.kind = "Struct") =>
    LET sv == Surviving(Backing) IN
    /\ ret.n = Len(sv)
    /\ op = "ParseMapBegin" /\ ret.n > 0 => Top(stack) = StrV(Backing.flds[sv[1]].name)
    /\ op = "ParseMapNext" => Top(stack) = StrV(Backing.flds[sv[Top(dec).i + 1]].name)
    /\ op = "ParseMapValue" => Top(stack) = Backing.flds[sv[Top(dec).i + 1]].val

\* C5 happens: the value of a surviving field that follows an omitted one is
\* on top of the stack.
C5_Witness ==
  /\ op = "ParseMapValue"
  /\ Backing.kind = "Struct"
  /\ Surviving(Backing)[Top(dec).i + 1] # Top(dec).i + 1
  /\ Top(stack) = StrV("x")

\* C6: a ParseType call leaves the value stack and the context stack as
\* they are, and a ParseType call that follows another one with no other
\* call between them returns the same Type and the same error.
C6_ParseTypeIdempotent ==
  [][op' = "ParseType" =>
       /\ stack' = stack
       /\ ctx' = ctx
       /\ op = "ParseType" => typ' = typ]_vars

\* C6 happens: ParseType was repeated on a pointer held inside an open
\* composite.
C6_Witness ==
  /\ op = "ParseType"
  /\ typeCalls >= 2
  /\ ctx # <<>>
  /\ Top(stack).kind = "Interface"
  /\ ~Top(stack).isnil
  /\ Top(stack).elem.kind = "Ptr"

\* the current value, unwrapped, is of no category of the vocabulary
OutsideVocabulary(x) ==
  /\ IsValid(x)
  /\ ~ErrorCarrying(x)
  /\ dereference(x).kind \in {"Func", "Chan"}

\* C7: on a value outside the vocabulary ParseType returns the
\* UnsupportedType error naming the value's type, and changes neither the
\* value stack nor the context stack, at the root and inside composites.
C7_UnsupportedType ==
  [][op' = "ParseType" /\ OutsideVocabulary(Top(stack)) =>
       /\ typ'.err = "objconv: unsupported type found in value parser: "
                       \o dereference(Top(stack)).ty
       /\ stack' = stack
       /\ ctx' = ctx]_vars

\* C7 happens: a function value inside an open composite was classified.
C7_Witness ==
  /\ op = "ParseType"
  /\ ctx # <<>>
  /\ OutsideVocabulary(Top(stack))
  /\ typ.err # NoError

\* C8: on a current value that ends, after unwrapping, in an empty pointer
\* or an empty interface, ParseType returns Nil and no error.
C8_EmptyWrapperNil ==
  (op = "ParseType" /\ IsValid(Top(stack)) /\ ~ErrorCarrying(Top(stack))
     /\ IsNil(dereference(Top(stack)))) =>
    typ = [type |-> "Nil", err |-> NoError]

\* C9: ParseType classifies a slice or an array of single bytes as Bytes
\* and a slice or an array of any other element type as Array.
C9_BytesOrArray ==
  (op = "ParseType" /\ IsValid(Top(stack)) /\ ~ErrorCarrying(Top(stack))
     /\ dereference(Top(stack)).kind \in {"Slice", "Array"}) =>
    /\ typ.err = NoError
    /\ typ.type = IF dereference(Top(stack)).ek = "Uint8" THEN "Bytes" ELSE "Array"

\* C10: ParseType classifies a duration as Duration, a timestamp as Time and
\* an error-carrying value of any representation as Error; an error-carrying
\* value is classified, and handed out by ParseError, as it stands on the
\* stack, with no pointer or interface layer removed.
C10_ClassificationPriority ==
  LET x == Top(stack) IN
  /\ (op = "ParseType" /\ IsValid(x)) =>
       /\ ErrorCarrying(x) => typ = [type |-> "Error", err |-> NoError]
       /\ ~ErrorCarrying(x) /\ dereference(x).ty = "time.Duration" =>
            typ = [type |-> "Duration", err |-> NoError]
       /\ ~ErrorCarrying(x) /\ dereference(x).ty = "time.Time" =>
            typ = [type |-> "Time", err |-> NoError]
  /\ (op = "ParseError" /\ ErrorCarrying(x)) => Top(events) = Event("Error", [e |-> Interface(x)])

\* C10 happens: the error made by errors.New, a non-nil pointer, was handed
\* out by ParseError inside an open composite.
C10_Witness ==
  /\ op = "ParseError"
  /\ ctx # <<>>
  /\ Interface(Top(stack)) = ErrorPtr("boom")
  /\ Top(events).val.e.kind = "Ptr"

\* the number of children a traversal of composite v enumerates
Children(v) == IF v.kind = "Struct" THEN Len(Surviving(v)) ELSE VLen(v)

BeginCalls == {"ParseArrayBegin", "ParseMapBegin"}
NextCalls == {"ParseArrayNext", "ParseMapNext"}
EndCalls == {"ParseArrayEnd", "ParseMapEnd"}

\* C11: ParseArrayBegin and ParseMapBegin return no error and a length >= 0
\* that is the number of children of the composite, which is the number of
\* children enumerated when End is called; ParseArrayNext and ParseMapNext
\* never return the End sentinel.
C11_NoEndSentinel ==
  /\ op \in BeginCalls => ret.err = NoError /\ ret.n >= 0 /\ ret.n = Children(Backing)
  /\ op \in NextCalls => ret.err # End /\ ret.err = NoError
  /\ op \in EndCalls => Len(ret.seen) = ret.n

\* C11 happens: ParseArrayNext moved onto the last element of an array and
\* returned no error.
C11_Witness ==
  /\ op = "ParseArrayNext"
  /\ Top(dec).i = Top(dec).n - 1
  /\ Top(dec).i = VLen(Backing) - 1
  /\ ret.err = NoError

\* C12: in every reachable state the context stack is one entry shorter
\* than the value stack.
C12_DepthRelation ==
  Len(ctx) = Len(stack) - 1

\* the value held by composite v for the key or field name on top of stack s
ValueFor(v, s) ==
  IF v.kind = "Map"
  THEN LET j == CHOOSE j \in 1..Len(v.ents) : v.ents[j].k = Top(s) IN v.ents[j].v
  ELSE LET j == CHOOSE j \in 1..Len(v.flds) : v.flds[j].name = Top(s).s IN v.flds[j].val

\* C13 as stated: ParseMapValue removes no entry that was on the value
\* stack before the call.
C13_MapValueRemovesNothing ==
  [][op' = "ParseMapValue" => SubSeq(stack', 1, Len(stack)) = stack]_vars

\* C13 amended: ParseMapValue pops the top entry of the value stack, the key
\* just parsed, and pushes in its place the value the backing map or record
\* holds for that key or field; the entries below are unchanged.
C13_MapValueReplacesKey ==
  [][op' = "ParseMapValue" =>
       /\ Len(stack') = Len(stack)
       /\ SubSeq(stack', 1, Len(stack) - 1) = SubSeq(stack, 1, Len(stack) - 1)
       /\ Top(stack') = ValueFor(dereference(Top(Top(dec).saved)), stack)
       /\ ctx' = ctx]_vars

\* C13 happens: ParseMapValue put the value of the second key of a native
\* map where the key was.
C13_Witness ==
  /\ op = "ParseMapValue"
  /\ Backing.kind = "Map"
  /\ Top(dec).i = 1
  /\ Top(stack) = ValueFor(Backing, <<Top(dec).seen[2]>>)
  /\ Top(stack) # Top(dec).seen[2]

\* C14: every open context stores as its length the length its Begin call
\* returned.
C14_ContextLength ==
  /\ Len(ctx) = Len(dec)
  /\ \A j \in 1..Len(ctx) : ctx[j].length = dec[j].n

Range(q) == {q[j] : j \in 1..Len(q)}
KeysOf(m) == {m.ents[j].k : j \in 1..Len(m.ents)}

\* C15: the context of a native map holds one snapshot of the map's keys,
\* each key once; Begin and the ParseMapNext calls expose the keys of the
\* snapshot in its order, so that by ParseMapEnd each key was exposed once;
\* ParseMapValue exposes the value the map holds for the key exposed last.
C15_NativeMapTraversal ==
  /\ \A j \in 1..Len(dec) :
       (j <= Len(ctx) /\ ctx[j].value.kind = "Map") =>
         LET ks == ctx[j].keys.elems IN
         /\ Len(ks) = Len(ctx[j].value.ents)
         /\ Range(ks) = KeysOf(ctx[j].value)
         /\ dec[j].seen = SubSeq(ks, 1, Len(dec[j].seen))
         /\ dec[j].n > 0 => Len(dec[j].seen) = dec[j].i + 1
  /\ (op = "ParseMapValue" /\ Backing.kind = "Map") =>
       Top(stack) = ValueFor(Backing, <<Top(ret.seen)>>)
  /\ (op = "ParseMapEnd" /\ Backing.kind = "Map") =>
       /\ Len(ret.seen) = Len(Backing.ents)
       /\ Range(ret.seen) = KeysOf(Backing)

\* C15 happens: a native map of two entries was traversed to its End in the
\* order opposite to the one it was built in.
C15_Witness ==
  /\ op = "ParseMapEnd"
  /\ Backing.kind = "Map"
  /\ ret.seen = <<StrV("b"), StrV("a")>>

\* the i-th child (from 0) a traversal of composite v exposes, for a native
\* map given the snapshot ks of its keys
Child(v, ks, i) ==
  CASE v.kind = "Map" -> ks[i + 1]
    [] v.kind = "Struct" -> StrV(v.flds[Surviving(v)[i + 1]].name)
    [] OTHER -> v.elems[i + 1]

\* C16: contexts and frames are opened and closed together, last in first
\* out; while a child composite is open the contexts below it are as they
\* were at its Begin, and after its End the context stack is as it was
\* before its Begin; each Next call exposes the child of the composite at
\* the index one past the previous one.
C16_BracketedNesting ==
  /\ Len(ctx) = Len(dec)
  /\ Len(dec) = begins - ends
  /\ \A j \in 1..Len(dec) : j <= Len(ctx) => dec[j].ctx = SubSeq(ctx, 1, j - 1)
  /\ op \in EndCalls => ctx = ret.ctx
  /\ op \in NextCalls =>
       /\ Top(ctx).index = Top(dec).i
       /\ Top(ctx).index = Len(Top(dec).seen) - 1
       /\ Top(stack) = Child(Backing, Top(ctx).keys.elems, Top(dec).i)

\* C16 happens: ParseArrayNext exposed the sibling of an array that was
\* traversed from Begin to End and that held a record traversed likewise.
C16_Witness ==
  /\ op = "ParseArrayNext"
  /\ Len(ctx) = 1
  /\ ends >= 2
  /\ LET prev == dereference(Backing.elems[Top(dec).i]) IN
       /\ prev.kind = "Slice"
       /\ Children(prev) > 0
       /\ dereference(prev.elems[1]).kind = "Struct"
       /\ Children(dereference(prev.elems[1])) > 0
  /\ Top(stack) = Backing.elems[Top(dec).i + 1]

\* C17: ParseArrayBegin pushes element 0 if the length is not 0 and nothing
\* otherwise; the value stack of an open zero-length array stays as it was;
\* after ParseArrayEnd the value stack and the context stack are what they
\* were before the matching ParseArrayBegin.
C17_ArrayRestores ==
  /\ op = "ParseArrayBegin" =>
       stack = IF VLen(Backing) > 0 THEN Append(ret.saved, Backing.elems[1]) ELSE ret.saved
  /\ (dec # <<>> /\ Top(dec).kind = "array" /\ Top(dec).n = 0) => stack = Top(dec).saved
  /\ op = "ParseArrayEnd" => stack = ret.saved /\ ctx = ret.ctx

\* the number of children context c enumerates
Enumerated(c) ==
  IF ~c.keys.isnil THEN Len(c.keys.elems)
  ELSE IF ~c.fields.isnil THEN Len(c.fields.elems)
  ELSE IF c.value.kind \in {"Slice", "Array"} THEN VLen(c.value)
  ELSE 0

\* C18: the index ParseArrayNext, ParseMapNext and ParseMapValue use is at
\* least 0 and less than the number of children of the context; they pop a
\* value stack that holds an entry above the root, and the root stays at the
\* bottom of the value stack through every call.
C18_InRange ==
  [][/\ Len(stack') >= 1
     /\ stack'[1] = root
     /\ Len(stack') < Len(stack) => Len(stack) >= 2
     /\ op' \in NextCalls \cup {"ParseMapValue"} =>
          /\ Len(stack) >= 2
          /\ ctx' # <<>>
          /\ Top(ctx').index >= 0
          /\ Top(ctx').index < Enumerated(Top(ctx'))]_vars

\* C18 happens: ParseMapValue read the last surviving field of a record.
C18_Witness ==
  /\ op = "ParseMapValue"
  /\ Backing.kind = "Struct"
  /\ Top(ctx).index = 1
  /\ Top(ctx).index = Enumerated(Top(ctx)) - 1

\* one pass of the unwrap switch
Unwrap(v) == IF v.kind \in {"Interface", "Ptr"} /\ ~v.isnil THEN v.elem ELSE v

RECURSIVE UnwrapTimes(_, _)
UnwrapTimes(v, n) == IF n = 0 THEN v ELSE UnwrapTimes(Unwrap(v), n - 1)

\* C19: value() returns an error-carrying top of stack as it is; otherwise
\* its result is reached in at most as many passes as the value has layers,
\* it is the first value of the chain that is no pointer or interface or is
\* an empty one, and so never a non-nil pointer or interface.
C19_UnwrapStops ==
  LET x == Top(stack)
      r == value(stack)
  IN IsValid(x) =>
       IF ErrorCarrying(x) THEN r = x
       ELSE /\ ~(r.kind \in {"Interface", "Ptr"} /\ ~r.isnil)
            /\ \E n \in 0..(MaxWrap + 1) :
                 /\ UnwrapTimes(x, n) = r
                 /\ \A m \in 0..(n - 1) : Unwrap(UnwrapTimes(x, m)) # UnwrapTimes(x, m)

\* C19 happens: the current value is an int behind two pointer layers and
\* was classified as Int.
C19_Witness ==
  /\ op = "ParseType"
  /\ Top(stack) = PtrTo(PtrTo(IntV(1)))
  /\ typ = [type |-> "Int", err |-> NoError]

GetterCalls ==
  {"ParseNil", "ParseBool", "ParseInt", "ParseUint", "ParseFloat", "ParseString",
   "ParseBytes", "ParseTime", "ParseDuration", "ParseError"}

\* what getter g returns on parser p
GetterResult(g, p) ==
  CASE g = "ParseNil" -> ParseNil(p)
    [] g = "ParseBool" -> ParseBool(p)
    [] g = "ParseInt" -> ParseInt(p)
    [] g = "ParseUint" -> ParseUint(p)
    [] g = "ParseFloat" -> ParseFloat(p)
    [] g = "ParseString" -> ParseString(p)
    [] g = "ParseBytes" -> ParseBytes(p)
    [] g = "ParseTime" -> ParseTime(p)
    [] g = "ParseDuration" -> ParseDuration(p)
    [] g = "ParseError" -> ParseError(p)

\* C20: a scalar getter leaves the value stack and the context stack as they
\* are, so that the same getter called again returns the value it has just
\* returned; the stacks change only in Begin, Next, MapValue and End calls.
C20_GettersDoNotAdvance ==
  [][/\ op' \in GetterCalls =>
          /\ stack' = stack
          /\ ctx' = ctx
          /\ events' = Append(events, [type |-> typ.type, val |-> GetterResult(op', P)])
          /\ GetterResult(op', [stack |-> stack', ctx |-> ctx']) = Top(events').val
     /\ (stack' # stack \/ ctx' # ctx) =>
          op' \in BeginCalls \cup NextCalls \cup EndCalls \cup {"ParseMapValue"}]_vars

\* C20 happens: ParseString returned the string held by a composite and the
\* string is still the current value.
C20_Witness ==
  /\ op = "ParseString"
  /\ ctx # <<>>
  /\ Top(events).val = [s |-> "x"]
  /\ dereference(Top(stack)) = StrV("x")

====
